---- MODULE Spec2Model ----
(***************************************************************************)
(* peertube-plugin-vp9-opus-options: the option-string tokenizer           *)
(* (parseOptionsString) and the profile reconciler                         *)
(* (updateTranscodingProfiles) of the two settings-driven variants,        *)
(* src/main.js lines 29-192 and src/unnamed/part_000 lines 1-164.          *)
(*                                                                         *)
(* A JavaScript string is a sequence of one-character strings.  A          *)
(* JavaScript value is a record [t, s, n]: t is its type, s the characters *)
(* of a string, n the value of a number.                                   *)
(***************************************************************************)
EXTENDS Integers, Sequences, FiniteSets, TLC

VARIABLES
    variant,      \* the variant loaded: "main" | "part0" | "static" | "selector"
    pc,           \* position of the plugin's lifecycle
    ctxManager,   \* pluginContext.transcodingManager is set
    ctxLogger,    \* pluginContext.logger is set
    subscribed,   \* the onSettingsChange handler is registered with the host
    store,        \* the host's current settings snapshot
    pending,      \* <<S>>: the awaited getSettings() resolves with S; else <<>>
    settings,     \* argument of the last updateTranscodingProfiles pass
    manager,      \* the profiles and priorities the host's manager holds
    calls,        \* manager calls of the last handler invocation, in order
    logs,         \* logger calls of the last handler invocation, in order
    raised,       \* the last handler invocation threw
    lastOp,       \* the plugin entry point the host invoked last
    before,       \* (encoder, profile) keys registered when the last entry began
    repeated,     \* the last pass had the snapshot of the pass right before it
    built,        \* options the host built last from the current registration
    held,         \* a factory the host keeps a reference to, and its invocations
    optionsStr,   \* tokenizer harness: the argument of parseOptionsString
    tokens        \* tokenizer harness: outcome of parseOptionsString

vars == <<variant, pc, ctxManager, ctxLogger, subscribed, store, pending,
          settings, manager, calls, logs, raised, lastOp,
          before, repeated, built, held, optionsStr, tokens>>

lifecycleVars == <<variant, pc, ctxManager, ctxLogger, subscribed, store,
                   pending, settings, manager, calls, logs,
                   raised, lastOp, before, repeated, built, held>>

tokenizerVars == <<optionsStr, tokens>>

-----------------------------------------------------------------------------
(* JavaScript values *)

SP == " "
DQ == "\""
BS == "\\"
LF == "\n"

Undefined == [t |-> "undefined", s |-> <<>>, n |-> 0]
Str(chars) == [t |-> "string", s |-> chars, n |-> 0]
Num(k) == [t |-> "number", s |-> <<>>, n |-> k]

\* ToBoolean: undefined, '' and 0 are falsy.
Truthy(v) ==
    CASE v.t = "string" -> v.s # <<>>
      [] v.t = "number" -> v.n # 0
      [] OTHER -> FALSE

\* The regular expression dot matches any character but a line terminator.
IsLineTerminator(c) == c = LF

-----------------------------------------------------------------------------
(* parseOptionsString *)

\* optionsStr.match(/\\?.|^$/g): the matches from position i on.  At each
\* position the first alternative takes a backslash and the next character,
\* or, failing that, one character; a line terminator matches nothing and is
\* skipped.  ^$ matches the empty string only.
RECURSIVE MatchFrom(_, _)
MatchFrom(s, i) ==
    IF i > Len(s)
    THEN IF Len(s) = 0 THEN << <<>> >> ELSE <<>>
    ELSE IF s[i] = BS /\ i < Len(s) /\ ~IsLineTerminator(s[i + 1])
    THEN << <<s[i], s[i + 1]>> >> \o MatchFrom(s, i + 2)
    ELSE IF ~IsLineTerminator(s[i])
    THEN << <<s[i]>> >> \o MatchFrom(s, i + 1)
    ELSE MatchFrom(s, i + 1)

\* String.prototype.match with a global regex: null when nothing matches.
StringMatch(s) ==
    LET m == MatchFrom(s, 1)
    IN  [isNull |-> m = <<>>, items |-> m]

\* c.replace(/\\(.)/, "$1") on a match c of one or two characters.
Unescape(c) ==
    IF Len(c) = 2 /\ c[1] = BS /\ ~IsLineTerminator(c[2])
    THEN <<c[2]>>
    ELSE c

\* Mutant of ReduceStep: a space after an empty token starts no new token
\* (runs of spaces collapse).
ReduceStep_CollapseSpaces(p, c) ==
    IF c = <<DQ>>
    THEN [p EXCEPT !.quote = ~p.quote]
    ELSE IF ~p.quote /\ c = <<SP>>
    THEN IF p.a[Len(p.a)] = <<>> THEN p ELSE [p EXCEPT !.a = Append(p.a, <<>>)]
    ELSE [p EXCEPT !.a[Len(p.a)] = p.a[Len(p.a)] \o Unescape(c)]

\* One step of the reduce callback on accumulator p and match c.
ReduceStep(p, c) ==
    IF c = <<DQ>>
    THEN [p EXCEPT !.quote = ~p.quote]
    ELSE IF ~p.quote /\ c = <<SP>>
    THEN [p EXCEPT !.a = Append(p.a, <<>>)]
    ELSE [p EXCEPT !.a[Len(p.a)] = p.a[Len(p.a)] \o Unescape(c)]

RECURSIVE Reduce(_, _, _)
Reduce(m, k, p) ==
    IF k > Len(m) THEN p ELSE Reduce(m, k + 1, ReduceStep(p, m[k]))

\* The outcome of a call: the array returned, or a TypeError (reduce of null).
Returned(a) == [threw |-> FALSE, a |-> a]
TypeError == [threw |-> TRUE, a |-> <<>>]

\* Mutant of parseOptionsString: the guard tests the type only, not !optionsStr.
parseOptionsString_NoEmptyGuard(v) ==
    IF v.t # "string"
    THEN Returned(<<>>)
    ELSE LET m == StringMatch(v.s)
         IN  IF m.isNull
             THEN TypeError
             ELSE Returned(Reduce(m.items, 1, [a |-> << <<>> >>, quote |-> FALSE]).a)

parseOptionsString(v) ==
    IF ~Truthy(v) \/ v.t # "string"
    THEN Returned(<<>>)
    ELSE LET m == StringMatch(v.s)
         IN  IF m.isNull
             THEN TypeError
             ELSE Returned(Reduce(m.items, 1, [a |-> << <<>> >>, quote |-> FALSE]).a)

-----------------------------------------------------------------------------
(* Settings snapshots *)

\* A snapshot maps every setting name to a value; an absent key reads as
\* undefined.
Snapshot(vc, vi, vo, ac, ai, ao, pn, pr) ==
    ("video-codec-name" :> vc) @@ ("video-input-options" :> vi)
    @@ ("video-output-options" :> vo) @@ ("audio-codec-name" :> ac)
    @@ ("audio-input-options" :> ai) @@ ("audio-output-options" :> ao)
    @@ ("profile-name" :> pn) @@ ("encoder-priority" :> pr)

-----------------------------------------------------------------------------
(* parseInt(value, 10) || 1000 *)

Digits == <<"0", "1", "2", "3", "4", "5", "6", "7", "8", "9">>
IsDigit(c) == \E i \in 1..Len(Digits) : Digits[i] = c
DigitValue(c) == (CHOOSE i \in 1..Len(Digits) : Digits[i] = c) - 1
IsWhiteSpace(c) == c = SP \/ c = LF

NaN == [nan |-> TRUE, n |-> 0]
Parsed(k) == [nan |-> FALSE, n |-> k]

\* Index of the first character of s that is not white space (Len + 1: none).
RECURSIVE SkipWhiteSpace(_, _)
SkipWhiteSpace(s, i) ==
    IF i <= Len(s) /\ IsWhiteSpace(s[i]) THEN SkipWhiteSpace(s, i + 1) ELSE i

\* The longest run of decimal digits of s from i on, as a number; seen: a
\* digit has been read.
RECURSIVE ParseDigits(_, _, _, _)
ParseDigits(s, i, acc, seen) ==
    IF i <= Len(s) /\ IsDigit(s[i])
    THEN ParseDigits(s, i + 1, acc * 10 + DigitValue(s[i]), TRUE)
    ELSE IF seen THEN Parsed(acc) ELSE NaN

\* parseInt(v, 10): v is converted to a string; leading white space is
\* skipped, a sign is taken, and the digits that follow are read.
parseInt(v) ==
    CASE v.t = "number" -> Parsed(v.n)
      [] v.t = "undefined" -> NaN
      [] OTHER ->
         LET i == SkipWhiteSpace(v.s, 1)
             neg == i <= Len(v.s) /\ v.s[i] = "-"
             signed == i <= Len(v.s) /\ (v.s[i] = "-" \/ v.s[i] = "+")
             r == ParseDigits(v.s, IF signed THEN i + 1 ELSE i, 0, FALSE)
         IN  IF r.nan THEN NaN ELSE Parsed(IF neg THEN 0 - r.n ELSE r.n)

DefaultPriority == 1000

\* Mutant of Priority: the "|| 1000" is missing and NaN is registered as 0.
Priority_NoDefault(S) ==
    LET r == parseInt(S["encoder-priority"])
    IN  IF r.nan THEN 0 ELSE r.n

\* const priority = parseInt(settings['encoder-priority'], 10) || 1000;
Priority(S) ==
    LET r == parseInt(S["encoder-priority"])
    IN  IF r.nan \/ r.n = 0 THEN DefaultPriority ELSE r.n

-----------------------------------------------------------------------------
(* The host's transcoding manager, as far as the plugin's entries go *)

\* profiles: the profiles filed; priorities: the priority registrations, in
\* the order they were made.
EmptyManager == [profiles |-> {}, priorities |-> <<>>]

\* A factory closure: the two option strings it has captured.
Factory(inStr, outStr) == [inputOptionsStr |-> inStr, outputOptionsStr |-> outStr]
NoFactory == Factory(Undefined, Undefined)

\* A factory closure of the fixed variants: it returns array literals.
LiteralFactory(out) == [inputOptions |-> <<>>, outputOptions |-> out]

\* The host calls a factory: the object literal evaluates inputOptions, then
\* outputOptions; a throw of either is a throw of the factory.
InvokeFactory(f) ==
    IF "outputOptions" \in DOMAIN f
    THEN [threw |-> FALSE, inputOptions |-> f.inputOptions,
          outputOptions |-> f.outputOptions]
    ELSE
    LET i == parseOptionsString(f.inputOptionsStr)
        o == parseOptionsString(f.outputOptionsStr)
    IN  IF i.threw \/ o.threw
        THEN [threw |-> TRUE, inputOptions |-> <<>>, outputOptions |-> <<>>]
        ELSE [threw |-> FALSE, inputOptions |-> i.a, outputOptions |-> o.a]

\* A profile is filed under (encoder, profile name); adding one under a key
\* already present replaces it.
addVODProfile(m, encoder, profile, factory) ==
    [m EXCEPT !.profiles =
        {p \in m.profiles : ~(p.encoder = encoder /\ p.profile = profile)}
        \cup {[encoder |-> encoder, profile |-> profile, factory |-> factory]}]

addVODEncoderPriority(m, kind, encoder, priority) ==
    [m EXCEPT !.priorities =
        Append(@, [kind |-> kind, encoder |-> encoder, priority |-> priority])]

removeAllProfilesAndEncoderPriorities(m) == EmptyManager

\* Entries of the call log.
CallRemoveAll ==
    [op |-> "removeAllProfilesAndEncoderPriorities", kind |-> "", encoder |-> Undefined,
     profile |-> Undefined, factory |-> NoFactory, priority |-> 0]
CallAddProfile(encoder, profile, factory) ==
    [op |-> "addVODProfile", kind |-> "", encoder |-> encoder,
     profile |-> profile, factory |-> factory, priority |-> 0]
CallAddPriority(kind, encoder, priority) ==
    [op |-> "addVODEncoderPriority", kind |-> kind, encoder |-> encoder,
     profile |-> Undefined, factory |-> NoFactory, priority |-> priority]

-----------------------------------------------------------------------------
(* updateTranscodingProfiles *)

\* The condition under which the pass warns and returns:
\*   main.js:   !videoCodec || !audioCodec
\*   part_000:  !videoCodec || !audioCodec || !profileName
SkipsRegistration(v, S) ==
    IF v = "main"
    THEN ~Truthy(S["video-codec-name"]) \/ ~Truthy(S["audio-codec-name"])
    ELSE ~Truthy(S["video-codec-name"]) \/ ~Truthy(S["audio-codec-name"])
         \/ ~Truthy(S["profile-name"])

\* Mutant of AudioFactory: the audio factory closes over the video strings.
AudioFactory_VideoStrings(S) ==
    Factory(S["video-input-options"], S["video-output-options"])

\* The factory registered for the video codec, and the one for the audio codec.
VideoFactory(S) == Factory(S["video-input-options"], S["video-output-options"])
AudioFactory(S) == Factory(S["audio-input-options"], S["audio-output-options"])

\* The manager calls of the registering part of a pass, in order.
RegistrationCalls(S) ==
    <<CallAddProfile(S["video-codec-name"], S["profile-name"], VideoFactory(S)),
      CallAddProfile(S["audio-codec-name"], S["profile-name"], AudioFactory(S)),
      CallAddPriority("video", S["video-codec-name"], Priority(S)),
      CallAddPriority("audio", S["audio-codec-name"], Priority(S))>>

\* Mutant of PassCalls: the clear comes after the validation gate.
PassCalls_ClearAfterGate(v, S) ==
    IF SkipsRegistration(v, S) THEN <<>> ELSE <<CallRemoveAll>> \o RegistrationCalls(S)

\* Mutant of PassCalls: the pass does not clear.
PassCalls_NoClear(v, S) ==
    IF SkipsRegistration(v, S) THEN <<>> ELSE RegistrationCalls(S)

\* Mutant of PassCalls: the clear comes after the two addVODProfile calls.
PassCalls_ClearAfterProfiles(v, S) ==
    IF SkipsRegistration(v, S)
    THEN <<CallRemoveAll>>
    ELSE SubSeq(RegistrationCalls(S), 1, 2) \o <<CallRemoveAll>>
         \o SubSeq(RegistrationCalls(S), 3, 4)

\* The manager calls of one pass, in order.
PassCalls(v, S) ==
    <<CallRemoveAll>>
    \o (IF SkipsRegistration(v, S) THEN <<>> ELSE RegistrationCalls(S))

\* The logger calls of one pass, in order.
PassLogs(v, S) ==
    IF SkipsRegistration(v, S) THEN <<"warn: skipping">> ELSE <<"info: updating">>

\* The manager after call c.
Apply(m, c) ==
    CASE c.op = "removeAllProfilesAndEncoderPriorities" ->
            removeAllProfilesAndEncoderPriorities(m)
      [] c.op = "addVODProfile" -> addVODProfile(m, c.encoder, c.profile, c.factory)
      [] OTHER -> addVODEncoderPriority(m, c.kind, c.encoder, c.priority)

RECURSIVE ApplyAll(_, _)
ApplyAll(m, cs) == IF cs = <<>> THEN m ELSE ApplyAll(Apply(m, Head(cs)), Tail(cs))

\* updateTranscodingProfiles(settings) of variant v: the manager it leaves,
\* given manager m.
updateTranscodingProfiles(v, S, m) == ApplyAll(m, PassCalls(v, S))

-----------------------------------------------------------------------------
(* Settings the host may hold *)

LibvpxVp9 == Str(<<"l", "i", "b", "v", "p", "x", "-", "v", "p", "9">>)
Libopus == Str(<<"l", "i", "b", "o", "p", "u", "s">>)
Vp9Opus == Str(<<"v", "p", "9", "-", "o", "p", "u", "s">>)
OtherName == Str(<<"q">>)
Empty == Str(<<>>)

\* '-crf 32 -row-mt 1', '-b:a 192k', '-t 5', '-vf "a b"', and a line break
OptCrf ==
    Str(<<"-", "c", "r", "f", SP, "3", "2", SP, "-", "r", "o", "w", "-", "m", "t",
          SP, "1">>)
OptBitrate == Str(<<"-", "b", ":", "a", SP, "1", "9", "2", "k">>)
OptThreads == Str(<<"-", "t", SP, "5">>)
OptQuoted == Str(<<"-", "v", "f", SP, DQ, "a", SP, "b", DQ>>)
OptLineBreak == Str(<<LF>>)

\* The end-to-end scenario of the specification.
ExampleSettings ==
    Snapshot(LibvpxVp9, Undefined, OptCrf, Libopus, Undefined, OptBitrate,
             Vp9Opus, Str(<<"9", "0", "0">>))

\* Every combination of absent, empty and set required fields.
GateSnapshots ==
    {Snapshot(vc, Empty, OptCrf, ac, Empty, OptBitrate, pn, pr) :
        vc \in {Undefined, Empty, LibvpxVp9},
        ac \in {Undefined, Empty, Libopus},
        pn \in {Undefined, Empty, Vp9Opus},
        pr \in {Str(<<"9", "0", "0">>)}}

\* Valid required fields with every kind of encoder-priority value.
PriorityValues ==
    {Undefined, Empty, Num(5), Str(<<"9", "0", "0">>), Str(<<"a", "b", "c">>),
     Str(<<"0">>), Str(<<"-", "5">>), Str(<<"1", "2", "a", "b", "c">>),
     Str(<<SP, "7">>), Str(<<"-">>)}

PrioritySnapshots ==
    {Snapshot(LibvpxVp9, Empty, OptCrf, Libopus, Empty, OptBitrate, Vp9Opus, pr) :
        pr \in PriorityValues}

\* Valid required fields with different option strings and names.
OptionSnapshots ==
    {Snapshot(LibvpxVp9, vi, vo, ac, Empty, ao, pn, Str(<<"9", "0", "0">>)) :
        vi \in {Undefined, OptThreads},
        vo \in {OptCrf, OptQuoted, OptLineBreak},
        ac \in {Libopus},
        ao \in {OptBitrate, Empty},
        pn \in {Vp9Opus, OtherName}}

\* One encoder named for both kinds.
SameEncoderSettings ==
    Snapshot(LibvpxVp9, OptThreads, OptCrf, LibvpxVp9, Empty, OptBitrate, Vp9Opus,
             Undefined)

Snapshots ==
    {ExampleSettings, SameEncoderSettings}
    \cup GateSnapshots \cup PrioritySnapshots \cup OptionSnapshots

\* The snapshots the host may hold at activation or deliver while register
\* awaits getSettings.
EarlySnapshots ==
    {ExampleSettings, SameEncoderSettings,
     Snapshot(Empty, Empty, OptCrf, Libopus, Empty, OptBitrate, Vp9Opus, Undefined)}

-----------------------------------------------------------------------------
(* Lifecycle: register, the settings-change handler, unregister *)

Variants == {"main", "part0"}

NotBuilt ==
    [called |-> FALSE, encoder |-> Undefined, profile |-> Undefined,
     out |-> InvokeFactory(NoFactory)]

Keys(ps) == {<<p.encoder, p.profile>> : p \in ps}

\* No factory is held.
NotHeld ==
    [taken |-> FALSE, kind |-> "", factory |-> NoFactory, from |-> ExampleSettings,
     count |-> 0, stale |-> FALSE, out |-> InvokeFactory(NoFactory)]

\* The last entry the host invoked was an updateTranscodingProfiles pass.
IsPass == lastOp \in {"initial", "change"}

Init ==
    /\ variant \in Variants
    /\ pc = "unloaded"
    /\ ctxManager = FALSE
    /\ ctxLogger = FALSE
    /\ subscribed = FALSE
    /\ store \in EarlySnapshots
    /\ pending = <<>>
    /\ settings = store
    /\ manager = EmptyManager
    /\ calls = <<>>
    /\ logs = <<>>
    /\ raised = FALSE
    /\ lastOp = "none"
    /\ before = {}
    /\ repeated = FALSE
    /\ built = NotBuilt
    /\ held = NotHeld
    /\ optionsStr = Undefined
    /\ tokens = [called |-> FALSE, out |-> Returned(<<>>)]

\* The effect of one updateTranscodingProfiles(S) on the manager and the logs;
\* intro: what the caller logged before the pass.
RunPass(S, intro) ==
    /\ settings' = S
    /\ repeated' = (IsPass /\ S = settings)
    /\ before' = Keys(manager.profiles)
    /\ built' = NotBuilt
    /\ manager' = updateTranscodingProfiles(variant, S, manager)
    /\ calls' = PassCalls(variant, S)
    /\ logs' = intro \o PassLogs(variant, S)
    /\ raised' = FALSE

\* register, up to its await: the context is captured, the settings are
\* declared, the change handler is subscribed and getSettings is issued.
Register ==
    /\ pc \in {"unloaded", "unregistered"}
    /\ pc' = "awaiting"
    /\ ctxManager' = TRUE
    /\ ctxLogger' = TRUE
    /\ subscribed' = TRUE
    /\ pending' = <<store>>
    /\ lastOp' = "register"
    /\ before' = Keys(manager.profiles)
    /\ repeated' = FALSE
    /\ built' = NotBuilt
    /\ calls' = <<>>
    /\ logs' = <<"info: registering">>
    /\ raised' = FALSE
    /\ UNCHANGED <<variant, store, settings, manager, held, tokenizerVars>>

\* register, after its await: the initial pass on the snapshot getSettings
\* resolved with.
RegisterResume ==
    /\ pc = "awaiting"
    /\ pc' = "active"
    /\ RunPass(pending[1], <<>>)
    /\ pending' = <<>>
    /\ lastOp' = "initial"
    /\ UNCHANGED <<variant, ctxManager, ctxLogger, subscribed, store, held,
                   tokenizerVars>>

\* An administrator saves settings S; the host stores them and calls the
\* subscribed handler with them.  While register awaits getSettings the read
\* may or may not see S yet.
SettingsChange(S) ==
    /\ subscribed
    /\ pc = "awaiting" => S \in EarlySnapshots
    /\ store' = S
    /\ RunPass(S, <<"info: settings changed">>)
    /\ lastOp' = "change"
    /\ pending' \in (IF pc = "awaiting" THEN {pending, <<S>>} ELSE {pending})
    /\ UNCHANGED <<variant, pc, ctxManager, ctxLogger, subscribed, held,
                   tokenizerVars>>

\* unregister: the manager is cleared if its handle was captured.
Unregister ==
    /\ pc \in {"unloaded", "active", "unregistered"}
    /\ pc' = "unregistered"
    /\ lastOp' = "unregister"
    /\ before' = Keys(manager.profiles)
    /\ repeated' = FALSE
    /\ built' = NotBuilt
    /\ IF ctxManager
       THEN /\ manager' = removeAllProfilesAndEncoderPriorities(manager)
            /\ calls' = <<CallRemoveAll>>
       ELSE /\ UNCHANGED manager
            /\ calls' = <<>>
    /\ logs' = <<>>
    /\ raised' = FALSE
    /\ UNCHANGED <<variant, ctxManager, ctxLogger, subscribed, store, pending, settings,
                   held, tokenizerVars>>

\* The host builds the options of a registered profile by calling its factory.
BuildOptions(p) ==
    /\ p \in manager.profiles
    /\ built' = [called |-> TRUE, encoder |-> p.encoder, profile |-> p.profile,
                 out |-> InvokeFactory(p.factory)]
    /\ UNCHANGED <<variant, pc, ctxManager, ctxLogger, subscribed, store, pending,
                   settings, manager, calls, logs, raised, lastOp, before, repeated,
                   held, tokenizerVars>>

Next ==
    \/ Register
    \/ RegisterResume
    \/ \E S \in Snapshots : SettingsChange(S)
    \/ Unregister
    \/ \E p \in manager.profiles : BuildOptions(p)

Spec == Init /\ [][Next]_vars

-----------------------------------------------------------------------------
(* The host keeps a factory and calls it at encode time *)

\* How often the host calls the factory it holds.
MaxInvocations == 2

\* The snapshots an administrator saves while the host holds a factory.
CaptureSnapshots ==
    {ExampleSettings, SameEncoderSettings,
     Snapshot(LibvpxVp9, OptThreads, OptQuoted, Libopus, Empty, Empty, OtherName,
              Undefined),
     Snapshot(LibvpxVp9, Empty, OptLineBreak, Libopus, Empty, OptBitrate, Vp9Opus,
              Undefined),
     Snapshot(Empty, Empty, OptCrf, Libopus, Empty, OptBitrate, Vp9Opus, Undefined)}

\* Which of the two closures of the pass on S the manager holds under
\* encoder e: the audio profile is added second, so it is the one kept when
\* both codec names are the same.
KindOf(S, e) == IF e = S["audio-codec-name"] THEN "audio" ELSE "video"

\* The host takes the factory of registered profile p, as for an encode job.
HoldFactory(p) ==
    /\ p \in manager.profiles
    /\ held' = [taken |-> TRUE, kind |-> KindOf(settings, p.encoder),
                factory |-> p.factory, from |-> settings, count |-> 0,
                stale |-> FALSE, out |-> InvokeFactory(NoFactory)]
    /\ UNCHANGED <<variant, pc, ctxManager, ctxLogger, subscribed, store, pending,
                   settings, manager, calls, logs, raised, lastOp, before, repeated,
                   built, tokenizerVars>>

\* The closure body with the strings read from the host's settings at the
\* time of the call instead of the strings captured by the pass.
InvokeHeld_RereadsSettings ==
    /\ held.taken
    /\ held.count < MaxInvocations
    /\ held' = [held EXCEPT
                    !.count = @ + 1,
                    !.stale = settings # held.from,
                    !.out = InvokeFactory(IF held.kind = "video"
                                          THEN VideoFactory(store)
                                          ELSE AudioFactory(store))]
    /\ UNCHANGED <<variant, pc, ctxManager, ctxLogger, subscribed, store, pending,
                   settings, manager, calls, logs, raised, lastOp, before, repeated,
                   built, tokenizerVars>>

\* The host calls the factory it holds: the closure body runs on the strings
\* the closure captured.  stale: a pass on another snapshot has run since.
InvokeHeld ==
    /\ held.taken
    /\ held.count < MaxInvocations
    /\ held' = [held EXCEPT
                    !.count = @ + 1,
                    !.stale = settings # held.from,
                    !.out = InvokeFactory(held.factory)]
    /\ UNCHANGED <<variant, pc, ctxManager, ctxLogger, subscribed, store, pending,
                   settings, manager, calls, logs, raised, lastOp, before, repeated,
                   built, tokenizerVars>>

CaptureNext ==
    \/ Register
    \/ RegisterResume
    \/ \E S \in CaptureSnapshots : SettingsChange(S)
    \/ Unregister
    \/ \E p \in manager.profiles : HoldFactory(p)
    \/ InvokeHeld

CaptureSpec == Init /\ [][CaptureNext]_vars

-----------------------------------------------------------------------------
(* The fixed variants: the static profile and the selector settings *)

FixedVariants == {"static", "selector"}

Vp9OpusOptions == Str(<<"v", "p", "9", "-", "o", "p", "u", "s", "-", "o", "p", "t", "i", "o", "n", "s">>)

StaticPriority == 1000
SelectorPriority == 1000

\* The values of the selector settings.  CRF_OPTIONS is '0'..'63' and
\* AUDIO_BITRATE_OPTIONS is '32'..'256' in steps of 16; the ends and the
\* defaults stand for them.
CRF_OPTIONS == {Str(<<"0">>), Str(<<"3", "2">>), Str(<<"6", "3">>)}
DEADLINE_OPTIONS == {Str(<<"r", "e", "a", "l", "t", "i", "m", "e">>), Str(<<"g", "o", "o", "d">>), Str(<<"b", "e", "s", "t">>)}
AUDIO_BITRATE_OPTIONS == {Str(<<"3", "2">>), Str(<<"1", "2", "8">>), Str(<<"2", "5", "6">>)}

SettingNames == <<"crf", "deadline", "audio-bitrate">>

Selection(crf, deadline, bitrate) ==
    ("crf" :> crf) @@ ("deadline" :> deadline) @@ ("audio-bitrate" :> bitrate)

OptionsOf(name) ==
    CASE name = "crf" -> CRF_OPTIONS
      [] name = "deadline" -> DEADLINE_OPTIONS
      [] OTHER -> AUDIO_BITRATE_OPTIONS

Selections ==
    {Selection(c, d, b) : c \in CRF_OPTIONS, d \in DEADLINE_OPTIONS,
                          b \in AUDIO_BITRATE_OPTIONS}

\* The static variant declares no settings.
NoSelection == Selection(Undefined, Undefined, Undefined)

\* `${v}` in a template literal.
TemplateString(v) ==
    IF v.t = "string" THEN v.s ELSE <<"u", "n", "d", "e", "f", "i", "n", "e", "d">>

\* The manager calls of the static variant's register.
StaticCalls ==
    <<CallAddProfile(LibvpxVp9, Vp9Opus,
                     LiteralFactory(<<<<"-", "c", "r", "f">>, <<"4", "0">>,
                                      <<"-", "r", "o", "w", "-", "m", "t">>, <<"1">>>>)),
      CallAddProfile(Libopus, Vp9Opus,
                     LiteralFactory(<<<<"-", "b", ":", "a">>, <<"2", "5", "6", "k">>>>)),
      CallAddPriority("video", LibvpxVp9, StaticPriority),
      CallAddPriority("audio", Libopus, StaticPriority)>>

\* The video profile without the deadline parameter.
SelectorCalls_NoDeadline(chosenCRF, chosenDeadline, chosenBitrate) ==
    <<CallAddProfile(LibvpxVp9, Vp9OpusOptions,
                     LiteralFactory(<<<<"-", "c", "r", "f">>, chosenCRF.s,
                                      <<"-", "t", "i", "l", "e", "-", "c", "o", "l", "u", "m", "n", "s">>, <<"2">>,
                                      <<"-", "f", "r", "a", "m", "e", "-", "p", "a", "r", "a", "l", "l", "e", "l">>, <<"1">>,
                                      <<"-", "r", "o", "w", "-", "m", "t">>, <<"1">>>>)),
      CallAddProfile(Libopus, Vp9OpusOptions,
                     LiteralFactory(<<<<"-", "b", ":", "a">>, TemplateString(chosenBitrate) \o <<"k">>>>)),
      CallAddPriority("video", LibvpxVp9, SelectorPriority),
      CallAddPriority("audio", Libopus, SelectorPriority)>>

\* The manager calls of the selector variant's register, after its reads.
SelectorCalls(chosenCRF, chosenDeadline, chosenBitrate) ==
    <<CallAddProfile(LibvpxVp9, Vp9OpusOptions,
                     LiteralFactory(<<<<"-", "c", "r", "f">>, chosenCRF.s,
                                      <<"-", "d", "e", "a", "d", "l", "i", "n", "e">>, chosenDeadline.s,
                                      <<"-", "t", "i", "l", "e", "-", "c", "o", "l", "u", "m", "n", "s">>, <<"2">>,
                                      <<"-", "f", "r", "a", "m", "e", "-", "p", "a", "r", "a", "l", "l", "e", "l">>, <<"1">>,
                                      <<"-", "r", "o", "w", "-", "m", "t">>, <<"1">>>>)),
      CallAddProfile(Libopus, Vp9OpusOptions,
                     LiteralFactory(<<<<"-", "b", ":", "a">>, TemplateString(chosenBitrate) \o <<"k">>>>)),
      CallAddPriority("video", LibvpxVp9, SelectorPriority),
      CallAddPriority("audio", Libopus, SelectorPriority)>>

\* How often the host activates the plugin while earlier registrations are
\* still in the manager.
MaxActivations == 2

FixedInit ==
    /\ variant \in FixedVariants
    /\ pc = "unloaded"
    /\ ctxManager = FALSE
    /\ ctxLogger = FALSE
    /\ subscribed = FALSE
    /\ store \in (IF variant = "static" THEN {NoSelection} ELSE Selections)
    /\ pending = <<>>
    /\ settings = store
    /\ manager = EmptyManager
    /\ calls = <<>>
    /\ logs = <<>>
    /\ raised = FALSE
    /\ lastOp = "none"
    /\ before = {}
    /\ repeated = FALSE
    /\ built = NotBuilt
    /\ held = NotHeld
    /\ optionsStr = Undefined
    /\ tokens = [called |-> FALSE, out |-> Returned(<<>>)]

\* register of a fixed variant.  The static one makes its four manager calls
\* at once and keeps no handle; the selector one stores the handle, declares
\* its settings and awaits the first getSetting.
FixedRegister ==
    /\ pc \in {"unloaded", "unregistered"}
    /\ Len(manager.priorities) < 2 * MaxActivations
    /\ lastOp' = "register"
    /\ before' = Keys(manager.profiles)
    /\ built' = NotBuilt
    /\ raised' = FALSE
    /\ IF variant = "static"
       THEN /\ pc' = "active"
            /\ manager' = ApplyAll(manager, StaticCalls)
            /\ calls' = StaticCalls
            /\ logs' = <<>>
            /\ UNCHANGED <<ctxManager, pending>>
       ELSE /\ pc' = "awaiting"
            /\ ctxManager' = TRUE
            /\ pending' = <<>>
            /\ calls' = <<>>
            /\ logs' = <<"info: registering">>
            /\ UNCHANGED manager
    /\ UNCHANGED <<variant, ctxLogger, subscribed, store, settings, repeated, held,
                   tokenizerVars>>

\* An awaited getSetting resolves with the stored value; pending holds the
\* values read so far.  After the third read register adds its profiles and
\* priorities; settings records the three values it read.
GetSettingResume ==
    /\ variant = "selector"
    /\ pc = "awaiting"
    /\ LET read == Append(pending, store[SettingNames[Len(pending) + 1]])
       IN  IF Len(read) < Len(SettingNames)
           THEN /\ pending' = read
                /\ UNCHANGED <<pc, settings, manager, calls, logs>>
           ELSE /\ pending' = <<>>
                /\ pc' = "active"
                /\ settings' = Selection(read[1], read[2], read[3])
                /\ manager' = ApplyAll(manager, SelectorCalls(read[1], read[2], read[3]))
                /\ calls' = SelectorCalls(read[1], read[2], read[3])
                /\ logs' = Append(logs, "info: creating")
    /\ UNCHANGED <<variant, ctxManager, ctxLogger, subscribed, store, raised, lastOp,
                   before, repeated, built, held, tokenizerVars>>

\* An administrator picks another value of a selector setting; the selector
\* variant subscribes no handler.
AdminSave(name, value) ==
    /\ variant = "selector"
    /\ value \in OptionsOf(name)
    /\ value # store[name]
    /\ store' = [store EXCEPT ![name] = value]
    /\ UNCHANGED <<variant, pc, ctxManager, ctxLogger, subscribed, pending, settings,
                   manager, calls, logs, raised, lastOp, before, repeated, built, held,
                   tokenizerVars>>

\* unregister of a fixed variant.  The static one names transcodingManager,
\* which is a parameter of register and not in scope: the call throws a
\* ReferenceError before it reaches the manager.  The selector one clears the
\* manager if register stored its handle.
FixedUnregister ==
    /\ pc \in {"unloaded", "active", "unregistered"}
    /\ pc' = "unregistered"
    /\ lastOp' = "unregister"
    /\ before' = Keys(manager.profiles)
    /\ built' = NotBuilt
    /\ logs' = <<>>
    /\ IF variant = "static"
       THEN /\ raised' = TRUE
            /\ calls' = <<>>
            /\ UNCHANGED manager
       ELSE /\ raised' = FALSE
            /\ IF ctxManager
               THEN /\ manager' = removeAllProfilesAndEncoderPriorities(manager)
                    /\ calls' = <<CallRemoveAll>>
               ELSE /\ UNCHANGED manager
                    /\ calls' = <<>>
    /\ UNCHANGED <<variant, ctxManager, ctxLogger, subscribed, store, pending, settings,
                   repeated, held, tokenizerVars>>

FixedNext ==
    \/ FixedRegister
    \/ GetSettingResume
    \/ \E i \in 1..Len(SettingNames) :
          \E value \in OptionsOf(SettingNames[i]) : AdminSave(SettingNames[i], value)
    \/ FixedUnregister
    \/ \E p \in manager.profiles : BuildOptions(p)

FixedSpec == FixedInit /\ [][FixedNext]_vars

-----------------------------------------------------------------------------
(* Tokenizer harness: parseOptionsString applied to one input *)

MaxLen == 4

TokAlphabet == {"a", "b", SP, DQ, BS, LF}

BoundedStrings == UNION {[1..n -> TokAlphabet] : n \in 0..MaxLen}

\* '-crf 32 -b:v 5M'
ExampleCrf ==
    <<"-", "c", "r", "f", SP, "3", "2", SP, "-", "b", ":", "v", SP, "5", "M">>

\* '"hello world" foo'
ExampleHello ==
    <<DQ, "h", "e", "l", "l", "o", SP, "w", "o", "r", "l", "d", DQ, SP,
      "f", "o", "o">>

\* a, backslash, space, b
ExampleEscape == <<"a", BS, SP, "b">>

\* an unterminated quote, and a trailing lone backslash
ExampleOpenQuote == <<"a", SP, DQ, "b", SP, "c", SP, "d">>
ExampleTrailingBackslash == <<"a", SP, "b", "c", BS>>

TokInputs ==
    {Undefined, Num(0), Num(7)}
    \cup {Str(s) : s \in BoundedStrings}
    \cup {Str(ExampleCrf), Str(ExampleHello), Str(ExampleEscape),
          Str(ExampleOpenQuote), Str(ExampleTrailingBackslash)}

NotCalled == [called |-> FALSE, out |-> Returned(<<>>)]

TokInit ==
    /\ optionsStr \in TokInputs
    /\ tokens = NotCalled
    /\ variant = "main"
    /\ pc = "unloaded"
    /\ ctxManager = FALSE
    /\ ctxLogger = FALSE
    /\ subscribed = FALSE
    /\ store = ExampleSettings
    /\ pending = <<>>
    /\ settings = ExampleSettings
    /\ manager = EmptyManager
    /\ calls = <<>>
    /\ logs = <<>>
    /\ raised = FALSE
    /\ lastOp = "none"
    /\ before = {}
    /\ repeated = FALSE
    /\ built = NotBuilt
    /\ held = NotHeld

\* A caller evaluates parseOptionsString(optionsStr).
TokCall ==
    /\ ~tokens.called
    /\ tokens' = [called |-> TRUE, out |-> parseOptionsString(optionsStr)]
    /\ UNCHANGED <<optionsStr, lifecycleVars>>

TokNext == TokCall

TokSpec == TokInit /\ [][TokNext]_vars

-----------------------------------------------------------------------------
(* Reference notions the tokenizer properties are stated with: the          *)
(* space-split of a string, and a scan that pairs each backslash with the   *)
(* character after it.                                                      *)

HasChar(s, c) == \E i \in 1..Len(s) : s[i] = c

FirstIndex(s, c) == CHOOSE i \in 1..Len(s) : s[i] = c /\ \A j \in 1..(i - 1) : s[j] # c

\* s.split(' '): cut at every single space.
RECURSIVE SplitOnSpace(_)
SplitOnSpace(s) ==
    IF ~HasChar(s, SP)
    THEN <<s>>
    ELSE LET i == FirstIndex(s, SP)
         IN  <<SubSeq(s, 1, i - 1)>> \o SplitOnSpace(SubSeq(s, i + 1, Len(s)))

\* Number of positions from i on holding character c as an unescaped
\* character outside quoted mode (inQuote: quoted mode at position i).
RECURSIVE CountUnescaped(_, _, _, _)
CountUnescaped(s, i, inQuote, c) ==
    IF i > Len(s) THEN 0
    ELSE IF s[i] = BS /\ i < Len(s) THEN CountUnescaped(s, i + 2, inQuote, c)
    ELSE IF s[i] = DQ THEN CountUnescaped(s, i + 1, ~inQuote, c)
    ELSE (IF s[i] = c /\ ~inQuote THEN 1 ELSE 0)
         + CountUnescaped(s, i + 1, inQuote, c)

\* Number of positions from i on holding character c as the X of a \X pair.
RECURSIVE CountEscaped(_, _, _)
CountEscaped(s, i, c) ==
    IF i > Len(s) THEN 0
    ELSE IF s[i] = BS /\ i < Len(s)
    THEN (IF s[i + 1] = c THEN 1 ELSE 0) + CountEscaped(s, i + 2, c)
    ELSE CountEscaped(s, i + 1, c)

\* Every line break of s is the X of a \X pair.
RECURSIVE LineBreaksEscaped(_, _)
LineBreaksEscaped(s, i) ==
    IF i > Len(s) THEN TRUE
    ELSE IF s[i] = BS /\ i < Len(s) THEN LineBreaksEscaped(s, i + 2)
    ELSE s[i] # LF /\ LineBreaksEscaped(s, i + 1)

RECURSIVE CountInTokens(_, _)
CountInTokens(a, c) ==
    IF a = <<>> THEN 0
    ELSE Cardinality({i \in 1..Len(Head(a)) : Head(a)[i] = c})
         + CountInTokens(Tail(a), c)

\* The scan of spec section 4.1: a quote toggles quoted mode, a space outside
\* quoted mode starts a new token, \X appends X, anything else is appended.
RECURSIVE RefTokenize(_, _, _, _)
RefTokenize(s, i, inQuote, acc) ==
    IF i > Len(s) THEN acc
    ELSE IF s[i] = BS /\ i < Len(s)
    THEN RefTokenize(s, i + 2, inQuote,
                     [acc EXCEPT ![Len(acc)] = acc[Len(acc)] \o <<s[i + 1]>>])
    ELSE IF s[i] = DQ THEN RefTokenize(s, i + 1, ~inQuote, acc)
    ELSE IF s[i] = SP /\ ~inQuote
    THEN RefTokenize(s, i + 1, inQuote, Append(acc, <<>>))
    ELSE RefTokenize(s, i + 1, inQuote,
                     [acc EXCEPT ![Len(acc)] = acc[Len(acc)] \o <<s[i]>>])

IsString(v) == v.t = "string"

-----------------------------------------------------------------------------
(* Tokenizer properties, checked under TokSpec *)

C6_NeverRaises == tokens.called => ~tokens.out.threw

\* C7: for every non-empty input string the call returns 1 + (number of
\* unescaped spaces outside quoted mode) tokens, the only quotes in the tokens
\* are escaped ones, and '"hello world" foo' gives ["hello world", "foo"].
C7_QuoteGrouping ==
    (tokens.called /\ IsString(optionsStr) /\ optionsStr.s # <<>>)
    => /\ ~tokens.out.threw
       /\ Len(tokens.out.a) = 1 + CountUnescaped(optionsStr.s, 1, FALSE, SP)
       /\ CountInTokens(tokens.out.a, DQ) = CountEscaped(optionsStr.s, 1, DQ)
       /\ optionsStr.s = ExampleHello
            => tokens.out.a = << <<"h", "e", "l", "l", "o", SP, "w", "o", "r", "l", "d">>,
                                 <<"f", "o", "o">> >>

\* C8: for every non-empty input string whose line breaks (if any) are all
\* escaped, the tokens are those of the reference scan, in which \X appends X
\* alone; a, backslash, space, b gives the single token "a b".
C8_EscapeDecoding ==
    (tokens.called /\ IsString(optionsStr) /\ optionsStr.s # <<>>
        /\ LineBreaksEscaped(optionsStr.s, 1))
    => /\ tokens.out = Returned(RefTokenize(optionsStr.s, 1, FALSE, << <<>> >>))
       /\ optionsStr.s = ExampleEscape => tokens.out.a = << <<"a", SP, "b">> >>

\* C9: '' and every absent or non-string input give the empty sequence.
C9_EmptyInputNoTokens ==
    (tokens.called /\ (~IsString(optionsStr) \/ optionsStr.s = <<>>))
    => tokens.out = Returned(<<>>)

\* C9 witness: parseOptionsString('') has returned.
C9_Witness == tokens.called /\ optionsStr = Str(<<>>) /\ tokens.out.a = <<>>

-----------------------------------------------------------------------------
(* Reconciler properties, checked under Spec *)

\* One of the three required fields of S is empty or absent.
RequiredMissing(S) ==
    \/ ~Truthy(S["video-codec-name"])
    \/ ~Truthy(S["audio-codec-name"])
    \/ ~Truthy(S["profile-name"])

CallsOf(op) == SelectSeq(calls, LAMBDA c : c.op = op)

\* What a registered factory returns for the option strings inStr, outStr.
Tokenized(inStr, outStr) ==
    LET i == parseOptionsString(inStr)
        o == parseOptionsString(outStr)
    IN  IF i.threw \/ o.threw
        THEN [threw |-> TRUE, inputOptions |-> <<>>, outputOptions |-> <<>>]
        ELSE [threw |-> FALSE, inputOptions |-> i.a, outputOptions |-> o.a]

\* What the manager holds, as the host sees it: each profile with the options
\* its factory returns, and the priority registrations.
Registered(m) ==
    [profiles |-> {[encoder |-> p.encoder, profile |-> p.profile,
                    options |-> InvokeFactory(p.factory)] : p \in m.profiles},
     priorities |-> m.priorities]

\* C1: a pass on a snapshot with a required field empty or absent makes no
\* addVODProfile and no addVODEncoderPriority call, logs a warning and does
\* not raise, in both variants.
C1_ValidationGate ==
    (IsPass /\ RequiredMissing(settings))
    => /\ CallsOf("addVODProfile") = <<>>
       /\ CallsOf("addVODEncoderPriority") = <<>>
       /\ \E i \in 1..Len(logs) : logs[i] = "warn: skipping"
       /\ ~raised

\* C2: after a pass on S2, whatever pass came before it, the manager holds
\* exactly what a pass on S2 alone registers with an empty manager.
C2_Replacement ==
    IsPass => manager = updateTranscodingProfiles(variant, settings, EmptyManager)

\* C2 witness: the pass before registered profile name 'q'; the last pass, on
\* a snapshot naming 'vp9-opus', left only 'vp9-opus' profiles.
C2_Witness ==
    /\ IsPass
    /\ before = {<<LibvpxVp9, OtherName>>, <<Libopus, OtherName>>}
    /\ Keys(manager.profiles) = {<<LibvpxVp9, Vp9Opus>>, <<Libopus, Vp9Opus>>}
    /\ Len(manager.priorities) = 2

\* C3: a pass on the snapshot of the pass right before it leaves the manager
\* with the same profiles, factories returning the same option lists, and the
\* same priorities.
C3_Idempotence ==
    [][(IsPass /\ IsPass' /\ repeated') => Registered(manager') = Registered(manager)]_vars

\* C3 witness: a valid snapshot has been reconciled twice in a row.
C3_Witness == IsPass /\ repeated /\ manager.profiles # {} /\ Len(manager.priorities) = 2

\* C4: a pass on a snapshot with all three required fields set makes exactly
\* two addVODProfile calls, (videoCodec, profileName) and (audioCodec,
\* profileName), whose factories return the tokenized video and audio option
\* strings, and exactly two addVODEncoderPriority calls, ('video', videoCodec, p)
\* and ('audio', audioCodec, p); encoder-priority '900' gives p = 900.
C4_RegistrationShape ==
    (IsPass /\ ~RequiredMissing(settings))
    => LET prof == CallsOf("addVODProfile")
           prio == CallsOf("addVODEncoderPriority")
       IN  /\ Len(prof) = 2
           /\ prof[1].encoder = settings["video-codec-name"]
           /\ prof[1].profile = settings["profile-name"]
           /\ InvokeFactory(prof[1].factory)
                = Tokenized(settings["video-input-options"], settings["video-output-options"])
           /\ prof[2].encoder = settings["audio-codec-name"]
           /\ prof[2].profile = settings["profile-name"]
           /\ InvokeFactory(prof[2].factory)
                = Tokenized(settings["audio-input-options"], settings["audio-output-options"])
           /\ Len(prio) = 2
           /\ prio[1].kind = "video" /\ prio[1].encoder = settings["video-codec-name"]
           /\ prio[2].kind = "audio" /\ prio[2].encoder = settings["audio-codec-name"]
           /\ prio[1].priority = prio[2].priority
           /\ settings["encoder-priority"] = Str(<<"9", "0", "0">>)
                => prio[1].priority = 900
           /\ settings = ExampleSettings
                => /\ InvokeFactory(prof[1].factory).outputOptions
                        = << <<"-", "c", "r", "f">>, <<"3", "2">>,
                             <<"-", "r", "o", "w", "-", "m", "t">>, <<"1">> >>
                   /\ InvokeFactory(prof[2].factory).outputOptions
                        = << <<"-", "b", ":", "a">>, <<"1", "9", "2", "k">> >>

\* C4 witness: the end-to-end scenario has been reconciled and the host has
\* built the options of its video profile.
C4_Witness ==
    /\ IsPass
    /\ settings = ExampleSettings
    /\ Len(calls) = 5
    /\ built.called /\ built.encoder = LibvpxVp9
    /\ Len(built.out.outputOptions) = 4

\* encoder-priority values that are absent, empty or no integer.
UnparsablePriorities == {Undefined, Empty, Str(<<"a", "b", "c">>), Str(<<"-">>)}

\* C10: a pass on a valid snapshot whose encoder-priority is absent, empty or
\* no integer registers priority 1000 for the video and the audio encoder,
\* logs no warning or error and does not raise.
C10_DefaultPriority ==
    (IsPass /\ ~RequiredMissing(settings)
        /\ settings["encoder-priority"] \in UnparsablePriorities)
    => /\ Len(manager.priorities) = 2
       /\ \A i \in 1..2 : manager.priorities[i].priority = 1000
       /\ \E i \in 1..2 : manager.priorities[i].kind = "video"
       /\ \E i \in 1..2 : manager.priorities[i].kind = "audio"
       /\ \A i \in 1..Len(logs) : logs[i] \in {"info: settings changed", "info: updating"}
       /\ ~raised

\* C10 witness: a valid snapshot with encoder-priority 'abc' has been
\* reconciled.
C10_Witness ==
    /\ IsPass
    /\ ~RequiredMissing(settings)
    /\ settings["encoder-priority"] = Str(<<"a", "b", "c">>)
    /\ Len(manager.priorities) = 2

-----------------------------------------------------------------------------
(* Lifecycle properties of the settings-driven variants, checked under Spec *)

\* C14: every pass calls removeAllProfilesAndEncoderPriorities exactly once,
\* as its first manager call, also on a snapshot that fails the validation
\* gate and when nothing is registered.
C14_ClearFirst ==
    IsPass
    => /\ Len(CallsOf("removeAllProfilesAndEncoderPriorities")) = 1
       /\ calls[1].op = "removeAllProfilesAndEncoderPriorities"

\* C14 witness: a pass on a snapshot without codec names, run with nothing
\* registered, has made the clearing call and no other.
C14_Witness ==
    /\ IsPass
    /\ ~Truthy(settings["video-codec-name"])
    /\ before = {}
    /\ calls = <<CallRemoveAll>>

\* C16: once register has completed and the last entry invoked was a pass, the
\* manager holds what the host's latest settings imply, whichever way the
\* change notifications interleaved with register's await.
C16_LatestSettingsWin ==
    (pc = "active" /\ IsPass)
    => manager = updateTranscodingProfiles(variant, store, EmptyManager)

\* C17: after unregister, and until register is called again, the manager
\* holds no profile and no priority.
C17_StaysUnregistered == pc = "unregistered" => manager = EmptyManager

\* encoder-priority strings that are integers, with their values.
IntegerPriorities ==
    {<<Str(<<"9", "0", "0">>), 900>>, <<Str(<<"0">>), 0>>, <<Str(<<"-", "5">>), 0 - 5>>}

\* C18: a pass on a valid snapshot whose encoder-priority is the integer n
\* registers n for the video and the audio encoder, also for 0 and negative n.
C18_ConfiguredPriority ==
    \A e \in IntegerPriorities :
        (IsPass /\ ~RequiredMissing(settings) /\ settings["encoder-priority"] = e[1])
        => /\ Len(manager.priorities) = 2
           /\ \A i \in 1..2 : manager.priorities[i].priority = e[2]

\* C15: whenever and however often the host calls a factory registered by a
\* pass on snapshot S, it gets the tokenizations of S's option strings for that
\* encoder kind (or their error), whatever settings changes, passes and
\* earlier calls of the factory have happened since.
C15_CapturedValues ==
    held.count > 0
    => held.out =
         (IF held.kind = "video"
          THEN Tokenized(held.from["video-input-options"],
                         held.from["video-output-options"])
          ELSE Tokenized(held.from["audio-input-options"],
                         held.from["audio-output-options"]))

\* The factory of the example's video profile called a second time after a
\* pass on other settings.
C15_Witness ==
    /\ held.count = MaxInvocations
    /\ held.stale
    /\ held.from = ExampleSettings
    /\ held.kind = "video"
    /\ store # held.from
    /\ ~held.out.threw
    /\ Len(held.out.outputOptions) = 4
    /\ held.out.outputOptions[2] = <<"3", "2">>

\* C11: an unregister called after a completed register calls
\* removeAllProfilesAndEncoderPriorities exactly once and leaves the manager
\* without any profile or priority, in the static and the selector variant.
\* A register has completed when the manager handle is stored or the static
\* registration is in the manager.
C11_Teardown ==
    (lastOp = "unregister" /\ (ctxManager \/ before # {}))
    => /\ calls = <<CallRemoveAll>>
       /\ manager = EmptyManager

\* C12: an unregister called when register has never run makes no manager
\* call and does not raise, in the static and the selector variant.
C12_DeactivationGuard ==
    (lastOp = "unregister" /\ ~ctxManager /\ before = {})
    => /\ calls = <<>>
       /\ ~raised

\* C13: when the selector variant's register has completed, the manager holds
\* the video profile ('libvpx-vp9', 'vp9-opus-options') with outputOptions
\* -crf crf -deadline deadline -tile-columns 2 -frame-parallel 1 -row-mt 1 and
\* the audio profile ('libopus', 'vp9-opus-options') with outputOptions
\* -b:a <bitrate>k, crf, deadline and bitrate being the values getSetting
\* returned, both with empty inputOptions, and priority 1000 for both encoders.
C13_SelectorRegistration ==
    (variant = "selector" /\ pc = "active")
    => Registered(manager) =
         [profiles |->
            {[encoder |-> LibvpxVp9, profile |-> Vp9OpusOptions,
              options |->
                [threw |-> FALSE, inputOptions |-> <<>>,
                 outputOptions |->
                    <<<<"-", "c", "r", "f">>, settings["crf"].s,
                      <<"-", "d", "e", "a", "d", "l", "i", "n", "e">>,
                      settings["deadline"].s,
                      <<"-", "t", "i", "l", "e", "-", "c", "o", "l", "u", "m", "n", "s">>,
                      <<"2">>,
                      <<"-", "f", "r", "a", "m", "e", "-", "p", "a", "r", "a", "l", "l",
                        "e", "l">>,
                      <<"1">>,
                      <<"-", "r", "o", "w", "-", "m", "t">>, <<"1">>>>]],
             [encoder |-> Libopus, profile |-> Vp9OpusOptions,
              options |->
                [threw |-> FALSE, inputOptions |-> <<>>,
                 outputOptions |->
                    <<<<"-", "b", ":", "a">>,
                      settings["audio-bitrate"].s \o <<"k">>>>]]},
          priorities |->
            <<[kind |-> "video", encoder |-> LibvpxVp9, priority |-> 1000],
              [kind |-> "audio", encoder |-> Libopus, priority |-> 1000]>>]

\* C13 witness: register has completed with values other than the defaults
\* and the host has built the video profile's options.
C13_Witness ==
    /\ variant = "selector"
    /\ pc = "active"
    /\ settings = Selection(Str(<<"6", "3">>), Str(<<"b", "e", "s", "t">>),
                            Str(<<"2", "5", "6">>))
    /\ store = settings
    /\ built.called /\ built.encoder = LibvpxVp9
    /\ built.out.outputOptions[4] = <<"b", "e", "s", "t">>
    /\ Len(manager.priorities) = 2

====
